---- MODULE Spec2Model ----
(***************************************************************************)
(* Model of game/include/fpga/fpga.c: the register map accessor of the     *)
(* FPGA lightweight bridge (fpgainit, fpgaclose, readkeys, numbertodigit,  *)
(* setdigit), together with the part of the operating system and of the   *)
(* hardware the five functions talk to (open, mmap, munmap, close, the     *)
(* button register and the six 7-segment registers).                       *)
(*                                                                         *)
(* Addresses are integers.  A mapping is identified by its base address;   *)
(* a pointer is valid when it lies inside a live mapping.  C ints are      *)
(* modelled as (signed) integers: ~x is -x-1, x >> i is x \div 2^i and     *)
(* x & 1 is x % 2.                                                         *)
(***************************************************************************)
EXTENDS Integers, Sequences, FiniteSets, TLC

VARIABLES
    fpga_map,   \* the caller's fpga_map_arm_t
    open_fds,   \* OS: the descriptors open in the process
    maps,       \* OS: base addresses of the live mappings of the bridge
    hexreg,     \* hardware: HEX0..HEX5 data registers
    keyreg,     \* hardware: the button (KEY) data register
    rk,         \* the frame of a readkeys call in progress
    ncalls,     \* number of setdigit and numbertodigit calls made so far
    last        \* the most recent call: its arguments, result, system calls, stores

vars == <<fpga_map, open_fds, maps, hexreg, keyreg, rk, ncalls, last>>

----------------------------------------------------------------------------
(* Bounds of the model *)

\* descriptors 0..MaxFd exist; open fails (EMFILE) when all are in use
MaxFd == 4
\* the kernel places mappings at LW_BRIDGE_SPAN * 1..MaxMaps
MaxMaps == 2
\* setdigit/numbertodigit are called with number in -1..MaxNumber
MaxNumber == 10
\* setdigit is called with hex in -1..MaxHex
MaxHex == 6
\* at most MaxCalls calls of setdigit and numbertodigit in one behaviour
MaxCalls == 1
\* readkeys is called with size in 0..MaxSize
MaxSize == 4
\* the button register holds one of 254 - (0..MaxKey), i.e. 0xFE, 0xFD, 0xFC, ...
MaxKey == 3

----------------------------------------------------------------------------
(* Program constants *)

SUCCESS == 0
ERROR == -1
MAP_FAILED == -1
\* The register offsets and the span are set in fpga.h; only their roles
\* (seven fixed byte offsets inside the span) are known here.
LW_BRIDGE_SPAN == 8
KEY_BASE == 0
HEX0_BASE == 1
HEX1_BASE == 2
HEX2_BASE == 3
HEX3_BASE == 4
HEX4_BASE == 5
HEX5_BASE == 6

StdFds == {0, 1, 2}
Fds == 0..MaxFd
Bases == {LW_BRIDGE_SPAN * k : k \in 1..MaxMaps}
Numbers == (-1)..MaxNumber
HexArgs == (-1)..MaxHex
Sizes == 0..MaxSize
KeyVals == {254 - k : k \in 0..MaxKey}

----------------------------------------------------------------------------
(* C integer operators *)

BitNot(x) == -x - 1
Shr(x, i) == x \div (2 ^ i)
And1(x) == x % 2

----------------------------------------------------------------------------
(* The operating system *)

\* open("/dev/mem", ...): the lowest unused descriptor, or -1
OpenResults == {-1} \cup
    (IF Fds \ open_fds = {} THEN {}
     ELSE {CHOOSE f \in Fds \ open_fds : \A g \in Fds \ open_fds : f <= g})

\* mmap(NULL, LW_BRIDGE_SPAN, ...): the base of a fresh mapping, or MAP_FAILED
MmapResults == {MAP_FAILED} \cup (Bases \ maps)

\* munmap(addr, LW_BRIDGE_SPAN): EINVAL for an address that is not
\* page-aligned or lies outside the address space; otherwise the kernel
\* removes whatever is mapped in the range (nothing, possibly) and returns
\* 0, or reports a failure and removes nothing.
MunmapResults(addr) ==
    IF addr < 0 \/ addr % LW_BRIDGE_SPAN # 0 THEN {-1} ELSE {0, -1}

Unmapped(addr) == {b \in maps : addr <= b /\ b < addr + LW_BRIDGE_SPAN}

\* close(fd) with the descriptors fds open: 0 for an open descriptor,
\* -1 (EBADF) otherwise
CloseResult(fds, fd) == IF fd \in fds THEN 0 ELSE -1

SysCall(name, arg, res) == [call |-> name, arg |-> arg, res |-> res]

Call(op, a, b, ret, os, stores) ==
    [op |-> op, a |-> a, b |-> b, ret |-> ret, os |-> os, stores |-> stores]

----------------------------------------------------------------------------
(* The handle *)

Handle(fd, mp, key, h0, h1, h2, h3, h4, h5) ==
    [fd |-> fd, mapped_ptr |-> mp, KEY_ptr |-> key,
     HEX0_ptr |-> h0, HEX1_ptr |-> h1, HEX2_ptr |-> h2,
     HEX3_ptr |-> h3, HEX4_ptr |-> h4, HEX5_ptr |-> h5]

\* MappedHandle with HEX4_ptr derived from HEX5_BASE
MappedHandle_hex4(fd, mp) ==
    Handle(fd, mp, mp + KEY_BASE,
           mp + HEX0_BASE, mp + HEX1_BASE, mp + HEX2_BASE,
           mp + HEX3_BASE, mp + HEX5_BASE, mp + HEX5_BASE)

\* fpgainit, lines 35-42: the register pointers derived from the base
MappedHandle(fd, mp) ==
    Handle(fd, mp, mp + KEY_BASE,
           mp + HEX0_BASE, mp + HEX1_BASE, mp + HEX2_BASE,
           mp + HEX3_BASE, mp + HEX4_BASE, mp + HEX5_BASE)

\* The caller's structure before the first fpgainit: nothing initialises
\* it, so every field holds an indeterminate value.
IndeterminateHandles ==
    {Handle(fd, mp, p, p + 1, p + 2, p + 3, p + 4, p + 5, p + 6) :
        fd \in {-2, 0, 3}, mp \in {0, 3, LW_BRIDGE_SPAN, MAP_FAILED},
        p \in {0, LW_BRIDGE_SPAN}}

----------------------------------------------------------------------------
(* The hardware behind a mapping *)

\* a pointer is valid when it points into a live mapping
ValidPtr(p) == \E b \in maps : b <= p /\ p < b + LW_BRIDGE_SPAN

\* the byte offset inside the bridge that a valid pointer addresses
OffsetOf(p) == p - (CHOOSE b \in maps : b <= p /\ p < b + LW_BRIDGE_SPAN)

HexBase(k) ==
    CASE k = 0 -> HEX0_BASE [] k = 1 -> HEX1_BASE [] k = 2 -> HEX2_BASE
      [] k = 3 -> HEX3_BASE [] k = 4 -> HEX4_BASE [] k = 5 -> HEX5_BASE

\* the display registers after the stores of one call; a store to any other
\* offset of the bridge does not reach a display register
AfterStores(stores) ==
    [k \in 0..5 |->
        IF \E j \in 1..Len(stores) : OffsetOf(stores[j].addr) = HexBase(k)
        THEN LET j == CHOOSE n \in 1..Len(stores) :
                        /\ OffsetOf(stores[n].addr) = HexBase(k)
                        /\ \A m \in (n + 1)..Len(stores) :
                              OffsetOf(stores[m].addr) # HexBase(k)
             IN stores[j].val
        ELSE hexreg[k]]

\* a load through a valid pointer: the button register at KEY_BASE,
\* a display register at HEXk_BASE, 0 elsewhere in the bridge
Load(p) ==
    IF OffsetOf(p) = KEY_BASE THEN keyreg
    ELSE IF \E k \in 0..5 : OffsetOf(p) = HexBase(k)
         THEN hexreg[CHOOSE k \in 0..5 : OffsetOf(p) = HexBase(k)]
         ELSE 0

----------------------------------------------------------------------------
(* Initial state: the structure is declared, fpgainit has not been called *)

Idle == [pc |-> "idle", size |-> 0, i |-> 0, pressed_keys |-> <<>>,
         reads |-> <<>>, changed |-> FALSE, raw |-> 0]

Init ==
    /\ fpga_map \in IndeterminateHandles
    /\ open_fds = StdFds
    /\ maps = {}
    /\ hexreg \in {[k \in 0..5 |-> 0], [k \in 0..5 |-> BitNot(0)]}
    /\ keyreg \in KeyVals
    /\ rk = Idle
    /\ ncalls = 0
    /\ last = Call("none", 0, 0, 0, <<>>, <<>>)

----------------------------------------------------------------------------
(* int fpgainit(fpga_map_arm_t *fpga_map) *)

\* what a call leaves behind: the handle, the open descriptors, the live
\* mappings, the value returned and the system calls made
Outcome(h, fds, mps, ret, os) ==
    [h |-> h, fds |-> fds, maps |-> mps, ret |-> ret, os |-> os]

\* lines 17-22: open returned -1
InitOpenFailed(h, fds, mps, fdr) ==
    Outcome([h EXCEPT !.fd = fdr], fds, mps, -1, <<SysCall("open", 0, fdr)>>)

\* InitMapFailed without the close of line 30
InitMapFailed_leak(h, fds, mps, fdr, m) ==
    Outcome([h EXCEPT !.fd = fdr, !.mapped_ptr = m],
            fds \cup {fdr}, mps, ERROR,
            <<SysCall("open", 0, fdr), SysCall("mmap", fdr, m)>>)

\* lines 17-32: open returned fdr, mmap returned MAP_FAILED
InitMapFailed(h, fds, mps, fdr, m) ==
    Outcome([h EXCEPT !.fd = fdr, !.mapped_ptr = m],
            (fds \cup {fdr}) \ {fdr}, mps, ERROR,
            <<SysCall("open", 0, fdr), SysCall("mmap", fdr, m),
              SysCall("close", fdr, CloseResult(fds \cup {fdr}, fdr))>>)

\* lines 17-44: open returned fdr, mmap returned the base m
InitMapped(h, fds, mps, fdr, m) ==
    Outcome(MappedHandle(fdr, m), fds \cup {fdr}, mps \cup {m}, SUCCESS,
            <<SysCall("open", 0, fdr), SysCall("mmap", fdr, m)>>)

fpgainit ==
    /\ rk.pc # "loop"
    /\ \E fdr \in OpenResults, m \in MmapResults :
         LET out == IF fdr = -1
                    THEN InitOpenFailed(fpga_map, open_fds, maps, fdr)
                    ELSE IF m = MAP_FAILED
                         THEN InitMapFailed(fpga_map, open_fds, maps, fdr, m)
                         ELSE InitMapped(fpga_map, open_fds, maps, fdr, m)
         IN /\ fpga_map' = out.h
            /\ open_fds' = out.fds
            /\ maps' = out.maps
            /\ last' = Call("fpgainit", 0, 0, out.ret, out.os, <<>>)
    /\ UNCHANGED <<hexreg, keyreg, rk, ncalls>>

----------------------------------------------------------------------------
(* int fpgaclose(fpga_map_arm_t *fpga_map) *)

\* CloseUnmapFailed that closes the descriptor all the same
CloseUnmapFailed_closing(h, fds, mps, r) ==
    Outcome([h EXCEPT !.fd = -1], fds \ {h.fd}, mps, ERROR,
            <<SysCall("munmap", h.mapped_ptr, r),
              SysCall("close", h.fd, CloseResult(fds, h.fd))>>)

\* lines 61-64: munmap returned r, not 0
CloseUnmapFailed(h, fds, mps, r) ==
    Outcome(h, fds, mps, ERROR, <<SysCall("munmap", h.mapped_ptr, r)>>)

\* CloseUnmapped without the reset of line 69
CloseUnmapped_noreset(h, fds, mps) ==
    IF h.fd >= 0
    THEN Outcome(h, fds \ {h.fd}, mps \ Unmapped(h.mapped_ptr), SUCCESS,
                 <<SysCall("munmap", h.mapped_ptr, 0),
                   SysCall("close", h.fd, CloseResult(fds, h.fd))>>)
    ELSE Outcome(h, fds, mps \ Unmapped(h.mapped_ptr), SUCCESS,
                 <<SysCall("munmap", h.mapped_ptr, 0)>>)

\* lines 61-72: munmap returned 0
CloseUnmapped(h, fds, mps) ==
    IF h.fd >= 0
    THEN Outcome([h EXCEPT !.fd = -1], fds \ {h.fd}, mps \ Unmapped(h.mapped_ptr),
                 SUCCESS,
                 <<SysCall("munmap", h.mapped_ptr, 0),
                   SysCall("close", h.fd, CloseResult(fds, h.fd))>>)
    ELSE Outcome(h, fds, mps \ Unmapped(h.mapped_ptr), SUCCESS,
                 <<SysCall("munmap", h.mapped_ptr, 0)>>)

\* The caller passes a structure that fpgainit has been called on.
fpgaclose ==
    /\ last.op # "none"
    /\ rk.pc # "loop"
    /\ \E r \in MunmapResults(fpga_map.mapped_ptr) :
         LET out == IF r # 0
                    THEN CloseUnmapFailed(fpga_map, open_fds, maps, r)
                    ELSE CloseUnmapped(fpga_map, open_fds, maps)
         IN /\ fpga_map' = out.h
            /\ open_fds' = out.fds
            /\ maps' = out.maps
            /\ last' = Call("fpgaclose", 0, 0, out.ret, out.os, <<>>)
    /\ UNCHANGED <<hexreg, keyreg, rk, ncalls>>

----------------------------------------------------------------------------
(* int numbertodigit(int number) *)

\* numbertodigit with segment D missing from the 9
numbertodigit_nine(number) ==
    CASE number = 0 -> \b0111111
      [] number = 1 -> \b0000110
      [] number = 2 -> \b1011011
      [] number = 3 -> \b1001111
      [] number = 4 -> \b1100110
      [] number = 5 -> \b1101101
      [] number = 6 -> \b1111101
      [] number = 7 -> \b0000111
      [] number = 8 -> \b1111111
      [] number = 9 -> \b1100111
      [] OTHER -> 0

numbertodigit(number) ==
    CASE number = 0 -> \b0111111
      [] number = 1 -> \b0000110
      [] number = 2 -> \b1011011
      [] number = 3 -> \b1001111
      [] number = 4 -> \b1100110
      [] number = 5 -> \b1101101
      [] number = 6 -> \b1111101
      [] number = 7 -> \b0000111
      [] number = 8 -> \b1111111
      [] number = 9 -> \b1101111
      [] OTHER -> 0

\* a call of numbertodigit by the program
numbertodigit_call ==
    /\ rk.pc # "loop"
    /\ ncalls < MaxCalls
    /\ \E number \in Numbers :
         last' = Call("numbertodigit", number, 0, numbertodigit(number), <<>>, <<>>)
    /\ ncalls' = ncalls + 1
    /\ UNCHANGED <<fpga_map, open_fds, maps, hexreg, keyreg, rk>>

----------------------------------------------------------------------------
(* void setdigit(fpga_map_arm_t fpga_map, int number, int hex) *)

Store(addr, val) == [addr |-> addr, val |-> val]

\* SetDigitStores with case 5 storing through HEX4_ptr
SetDigitStores_case5(h, number, hex) ==
    CASE hex = 0 -> <<Store(h.HEX0_ptr, BitNot(numbertodigit(number)))>>
      [] hex = 1 -> <<Store(h.HEX1_ptr, BitNot(numbertodigit(number)))>>
      [] hex = 2 -> <<Store(h.HEX2_ptr, BitNot(numbertodigit(number)))>>
      [] hex = 3 -> <<Store(h.HEX3_ptr, BitNot(numbertodigit(number)))>>
      [] hex = 4 -> <<Store(h.HEX4_ptr, BitNot(numbertodigit(number)))>>
      [] hex = 5 -> <<Store(h.HEX4_ptr, BitNot(numbertodigit(number)))>>
      [] OTHER -> <<>>

\* SetDigitStores with the default case falling into case 0
SetDigitStores_default(h, number, hex) ==
    CASE hex = 1 -> <<Store(h.HEX1_ptr, BitNot(numbertodigit(number)))>>
      [] hex = 2 -> <<Store(h.HEX2_ptr, BitNot(numbertodigit(number)))>>
      [] hex = 3 -> <<Store(h.HEX3_ptr, BitNot(numbertodigit(number)))>>
      [] hex = 4 -> <<Store(h.HEX4_ptr, BitNot(numbertodigit(number)))>>
      [] hex = 5 -> <<Store(h.HEX5_ptr, BitNot(numbertodigit(number)))>>
      [] OTHER -> <<Store(h.HEX0_ptr, BitNot(numbertodigit(number)))>>

\* the register stores setdigit performs, in order
SetDigitStores(h, number, hex) ==
    CASE hex = 0 -> <<Store(h.HEX0_ptr, BitNot(numbertodigit(number)))>>
      [] hex = 1 -> <<Store(h.HEX1_ptr, BitNot(numbertodigit(number)))>>
      [] hex = 2 -> <<Store(h.HEX2_ptr, BitNot(numbertodigit(number)))>>
      [] hex = 3 -> <<Store(h.HEX3_ptr, BitNot(numbertodigit(number)))>>
      [] hex = 4 -> <<Store(h.HEX4_ptr, BitNot(numbertodigit(number)))>>
      [] hex = 5 -> <<Store(h.HEX5_ptr, BitNot(numbertodigit(number)))>>
      [] OTHER -> <<>>

\* The caller passes a handle whose dereferenced pointer is valid.
setdigit ==
    /\ rk.pc # "loop"
    /\ ncalls < MaxCalls
    /\ \E number \in Numbers, hex \in HexArgs :
         LET stores == SetDigitStores(fpga_map, number, hex) IN
         /\ \A j \in 1..Len(stores) : ValidPtr(stores[j].addr)
         /\ hexreg' = AfterStores(stores)
         /\ ncalls' = ncalls + 1
         /\ last' = Call("setdigit", number, hex, 0, <<>>, stores)
    /\ UNCHANGED <<fpga_map, open_fds, maps, keyreg, rk>>

----------------------------------------------------------------------------
(* void readkeys(fpga_map_arm_t fpga_map, int *pressed_keys, size_t size) *)
\* The loop runs one iteration per step: the hardware may change the
\* button register between two iterations.

\* KeyBit without the inversion
KeyBit_raw(value, i) == And1(Shr(value, i))

\* line 95: the value stored in pressed_keys[i] when the register holds value
KeyBit(value, i) == And1(Shr(BitNot(value), i))

\* the caller passes a handle whose KEY_ptr is valid; line 93, i = 0
readkeys_call ==
    /\ rk.pc # "loop"
    /\ ValidPtr(fpga_map.KEY_ptr)
    /\ \E size \in Sizes :
         rk' = [pc |-> "loop", size |-> size, i |-> 0, pressed_keys |-> <<>>,
                reads |-> <<>>, changed |-> FALSE, raw |-> 0]
    /\ UNCHANGED <<fpga_map, open_fds, maps, hexreg, keyreg, ncalls, last>>

\* lines 93-96, one iteration: i < size
readkeys_iter ==
    /\ rk.pc = "loop"
    /\ rk.i < rk.size
    /\ LET value == Load(fpga_map.KEY_ptr) IN
       rk' = [rk EXCEPT
                !.pressed_keys = Append(@, KeyBit(value, rk.i)),
                !.reads = Append(@, value),
                !.i = @ + 1]
    /\ UNCHANGED <<fpga_map, open_fds, maps, hexreg, keyreg, ncalls, last>>

\* line 93, i = size: the loop ends and the function returns
readkeys_return ==
    /\ rk.pc = "loop"
    /\ rk.i >= rk.size
    /\ rk' = [rk EXCEPT !.pc = "done", !.raw = keyreg]
    /\ last' = Call("readkeys", rk.size, 0, 0, <<>>, <<>>)
    /\ UNCHANGED <<fpga_map, open_fds, maps, hexreg, keyreg, ncalls>>

\* the hardware: a button is pressed or released
key_change ==
    /\ \E value \in KeyVals \ {keyreg} : keyreg' = value
    /\ rk' = IF rk.pc = "loop" THEN [rk EXCEPT !.changed = TRUE] ELSE rk
    /\ UNCHANGED <<fpga_map, open_fds, maps, hexreg, ncalls, last>>

----------------------------------------------------------------------------
(* Specifications *)

\* the lifecycle: any sequence of fpgainit and fpgaclose calls on one handle
Next == fpgainit \/ fpgaclose

Spec == Init /\ [][Next]_vars

\* the displays: one fpgainit, then setdigit and numbertodigit calls
first_fpgainit == last.op = "none" /\ fpgainit

NextHex == first_fpgainit \/ setdigit \/ numbertodigit_call

\* no action of NextHex changes the button register: one value of it is enough
InitHex == Init /\ keyreg = \hFE

SpecHex == InitHex /\ [][NextHex]_vars

\* the buttons: one fpgainit, then readkeys calls while the hardware runs
NextKeys == first_fpgainit \/ readkeys_call \/ readkeys_iter \/ readkeys_return
                \/ key_change

SpecKeys == Init /\ [][NextKeys]_vars


----------------------------------------------------------------------------
(* Properties *)

\* the system calls of the most recent call that are calls of name
OsCalls(name) == {j \in 1..Len(last.os) : last.os[j].call = name}

\* bit i of a non-negative integer
Bit(x, i) == (x \div (2 ^ i)) % 2

\* the seven register pointers of the handle
RegisterPtrs ==
    {fpga_map.KEY_ptr, fpga_map.HEX0_ptr, fpga_map.HEX1_ptr, fpga_map.HEX2_ptr,
     fpga_map.HEX3_ptr, fpga_map.HEX4_ptr, fpga_map.HEX5_ptr}

PtrsValid == \A p \in RegisterPtrs : ValidPtr(p)

\* the handle holds a descriptor that is open and the base of a live mapping
OpenAndMapped ==
    /\ fpga_map.fd \in open_fds \ StdFds
    /\ fpga_map.mapped_ptr \in maps

\* C1: when fpgainit fails (open fails, or open succeeds and mmap fails) it
\* returns a negative code and no descriptor opened by the call is open
\* afterwards: after an open failure the fd field holds no valid descriptor,
\* after a mapping failure the descriptor just opened has been closed.
C1_InitFailureLeavesNoDescriptor ==
    (/\ last.op = "fpgainit"
     /\ \/ last.os[1].res = -1
        \/ (Len(last.os) >= 2 /\ last.os[2].res = MAP_FAILED))
    => /\ last.ret < 0
       /\ IF last.os[1].res = -1
          THEN fpga_map.fd \notin open_fds
          ELSE /\ last.os[1].res \notin open_fds
               /\ \E j \in OsCalls("close") :
                     last.os[j].arg = last.os[1].res /\ last.os[j].res = 0

\* C1 witness: an fpgainit whose mmap failed after a successful open
C1_Witness ==
    /\ last.op = "fpgainit"
    /\ last.os[1].res >= 0
    /\ last.os[2].res = MAP_FAILED
    /\ last.ret = ERROR

\* C2: fpgaclose returns SUCCESS exactly when munmap returned 0; then the
\* descriptor of the handle is closed and the fd field is -1.  Otherwise
\* it returns ERROR, closes nothing and leaves the handle unchanged.
C2_CloseFollowsUnmap ==
    [][last'.op = "fpgaclose"
       => /\ (last'.ret = SUCCESS) <=> (last'.os[1].res = 0)
          /\ last'.os[1].call = "munmap"
          /\ last'.ret = SUCCESS
                => /\ fpga_map'.fd = -1
                   /\ fpga_map.fd \notin open_fds'
          /\ last'.ret # SUCCESS
                => /\ last'.ret = ERROR
                   /\ Len(last'.os) = 1
                   /\ open_fds' = open_fds
                   /\ fpga_map' = fpga_map]_vars

\* C2 witness: a successful fpgaclose that closed the descriptor of the handle
C2_Witness ==
    /\ last.op = "fpgaclose"
    /\ last.ret = SUCCESS
    /\ Len(last.os) = 2
    /\ last.os[2].call = "close"
    /\ last.os[2].arg \notin open_fds
    /\ fpga_map.fd = -1

\* C3: in every state reached by fpgainit and fpgaclose calls, the register
\* pointers of the handle are valid exactly when the handle is open and mapped.
C3_PointersValidIffOpen == PtrsValid <=> OpenAndMapped

\* C9: when open and mmap succeed, fpgainit returns SUCCESS and the handle
\* holds an open descriptor, the base of a live mapping, and seven register
\* pointers, each the base plus the offset of its register, pairwise distinct
\* and inside the mapped span.
C9_InitSuccessPopulatesHandle ==
    (last.op = "fpgainit" /\ Len(last.os) >= 2 /\ last.os[1].res >= 0
        /\ last.os[2].res # MAP_FAILED)
    => /\ last.ret = SUCCESS
       /\ fpga_map.fd = last.os[1].res
       /\ fpga_map.fd \in open_fds
       /\ fpga_map.mapped_ptr = last.os[2].res
       /\ fpga_map.mapped_ptr \in maps
       /\ fpga_map.KEY_ptr = fpga_map.mapped_ptr + KEY_BASE
       /\ \A k \in 0..5 :
             (CASE k = 0 -> fpga_map.HEX0_ptr [] k = 1 -> fpga_map.HEX1_ptr
                [] k = 2 -> fpga_map.HEX2_ptr [] k = 3 -> fpga_map.HEX3_ptr
                [] k = 4 -> fpga_map.HEX4_ptr [] k = 5 -> fpga_map.HEX5_ptr)
             = fpga_map.mapped_ptr + HexBase(k)
       /\ Cardinality(RegisterPtrs) = 7
       /\ \A p \in RegisterPtrs :
             fpga_map.mapped_ptr <= p /\ p < fpga_map.mapped_ptr + LW_BRIDGE_SPAN

\* C9 witness: a successful fpgainit
C9_Witness ==
    /\ last.op = "fpgainit"
    /\ last.ret = SUCCESS
    /\ OpenAndMapped
    /\ PtrsValid

\* C10: no call ever passes to the OS close a descriptor that is invalid or
\* already closed; in particular fpgaclose after a failed fpgainit does not.
C10_NoCloseOfInvalidDescriptor ==
    \A j \in OsCalls("close") : last.os[j].arg >= 0 /\ last.os[j].res = 0

\* C10 witness: an fpgaclose on a handle whose fd is -1 (after a failed
\* open, or after a first fpgaclose): munmap returned 0 and close was not called
C10_Witness ==
    /\ last.op = "fpgaclose"
    /\ last.ret = SUCCESS
    /\ OsCalls("close") = {}
    /\ fpga_map.fd = -1

\* C4: a readkeys call reads the button register exactly once, whatever
\* size is, so that all size output bits come from one and the same register
\* value even when the hardware changes the register during the call: the
\* output of a call is the decoding of one value of the register.
C4_OutputFromOneRegisterValue ==
    rk.pc = "done"
    => \E value \in KeyVals :
          \A i \in 0..(rk.size - 1) : rk.pressed_keys[i + 1] = 1 - Bit(value, i)

\* C5: when the register holds one value raw during the whole call, readkeys
\* writes 1 - (bit i of raw) to pressed_keys[i] for every i in [0, size);
\* raw 0xFE with size 4 gives [1,0,0,0].
C5_PressedIsInvertedBit ==
    (rk.pc = "done" /\ ~rk.changed)
    => /\ Len(rk.pressed_keys) = rk.size
       /\ \A i \in 0..(rk.size - 1) : rk.pressed_keys[i + 1] = 1 - Bit(rk.raw, i)
       /\ (rk.raw = \hFE /\ rk.size = 4) => rk.pressed_keys = <<1, 0, 0, 0>>

\* C5 witness: readkeys with size 4 while the register holds 0xFE
C5_Witness ==
    /\ rk.pc = "done"
    /\ ~rk.changed
    /\ rk.raw = \hFE
    /\ rk.size = 4
    /\ rk.pressed_keys = <<1, 0, 0, 0>>

\* C6: setdigit with hex in [0,5] performs exactly one register store: the
\* bitwise complement of numbertodigit(number) goes to display register hex;
\* the other five display registers and the button register keep their values.
C6_SetDigitWritesComplement ==
    [][(last'.op = "setdigit" /\ ncalls' = ncalls + 1 /\ last'.b \in 0..5)
       => /\ Len(last'.stores) = 1
          /\ hexreg'[last'.b] + numbertodigit(last'.a) = -1
          /\ \A i \in 0..15 :
                And1(Shr(hexreg'[last'.b], i)) = 1 - Bit(numbertodigit(last'.a), i)
          /\ \A k \in 0..5 : k # last'.b => hexreg'[k] = hexreg[k]
          /\ keyreg' = keyreg]_vars

\* C6 witness: setdigit(handle, 7, 3) stored ~0b0000111 in HEX3
C6_Witness ==
    /\ last.op = "setdigit"
    /\ last.a = 7
    /\ last.b = 3
    /\ Len(last.stores) = 1
    /\ hexreg[3] = -8

\* C7: setdigit with hex outside [0,5] performs no register store: the six
\* display registers, the button register and the handle keep their values.
C7_SetDigitOutOfRangeIsNoOp ==
    [][(last'.op = "setdigit" /\ ncalls' = ncalls + 1 /\ last'.b \notin 0..5)
       => /\ last'.stores = <<>>
          /\ hexreg' = hexreg
          /\ keyreg' = keyreg
          /\ fpga_map' = fpga_map]_vars

\* C7 witness: setdigit called with hex = -1 on a mapped handle
C7_Witness ==
    /\ last.op = "setdigit"
    /\ last.b = -1
    /\ last.stores = <<>>
    /\ PtrsValid

\* C8: numbertodigit returns the standard 7-segment pattern (bit 0 = segment
\* A .. bit 6 = segment G) for 0..9, a value of at most 7 bits, and 0 for any
\* other number.
C8_SevenSegmentTable ==
    last.op = "numbertodigit"
    => /\ last.ret \in 0..127
       /\ last.ret =
             IF last.a \in 0..9
             THEN <<\h3F, \h06, \h5B, \h4F, \h66, \h6D, \h7D, \h07, \h7F, \h6F>>[last.a + 1]
             ELSE 0

\* C8 witness: numbertodigit(-1) returned 0
C8_Witness ==
    /\ last.op = "numbertodigit"
    /\ last.a = -1
    /\ last.ret = 0

====
